---- MODULE Spec2Model ----
(***************************************************************************)
(* Jogo da Velha (src/python/JogoDaVelha.py): the game object              *)
(* (tabuleiro, turno, jogo_ativo), its handlers fazer_jogada and reiniciar,*)
(* the deferred reset a draw schedules with window.setTimeout, the win     *)
(* detector verificar_tabuleiro and the state import/export helpers.       *)
(*                                                                         *)
(* Encoding notes.                                                         *)
(*  - Positions are the Python strings '1'..'9'; a cell holds ' ', 'X' or  *)
(*    'O' (any string a successful import or a move can put there).        *)
(*  - verificar_tabuleiro returns a Python tuple whose first component is  *)
(*    a symbol, the string "empate" or an int (the number of empty cells). *)
(*    The model splits that dynamically typed component in two fields:     *)
(*    estado ("X", "O", "empate" or "andamento") and vazias (the int, 0    *)
(*    when the component is a string).                                     *)
(*  - A serialised state (the dict given to importar_estado_jogo) is a     *)
(*    function whose DOMAIN is the set of keys the dict has.               *)
(*  - The advisory functions (analisar_posicoes_criticas,                 *)
(*    calcular_heuristica_tabuleiro, obter_melhor_jogada) are operators;   *)
(*    a call leaves in `last` the symbol it was given and what it returned *)
(*    (None is the string "None").                                         *)
(*  - criar_linha_vitoria is modelled by the value of `tipo` it computes   *)
(*    from the positions and the cells' bounding boxes; coordinates are    *)
(*    integers and centres are kept doubled, so no rounding is modelled.   *)
(***************************************************************************)
EXTENDS Integers, FiniteSets, Sequences, TLC

VARIABLES
    tabuleiro,   \* self.tabuleiro: position -> cell value
    turno,       \* self.turno
    jogo_ativo,  \* self.jogo_ativo
    timers,      \* pending reiniciar_empate callbacks (window.setTimeout)
    aceitas,     \* history: moves accepted since the game was created, reset or imported
    last,        \* history: the last operation, its input and what it reported
    entrada      \* the serialised state handed to importar_estado_jogo (SpecImportar)

vars == <<tabuleiro, turno, jogo_ativo, timers, aceitas, last, entrada>>

----------------------------------------------------------------------------
(* Bounds *)

\* Pending deferred resets tracked at once (a draw is not played while
\* MaxTimers callbacks are already pending).
MaxTimers == 1

\* The coordinates of the cell rectangles given to criar_linha_vitoria are
\* the multiples 0, 4, ..., 4 * MaxPasso.
MaxPasso == 2

----------------------------------------------------------------------------
(* Data *)

Posicoes == {"1", "2", "3", "4", "5", "6", "7", "8", "9"}

\* Inputs of fazer_jogada that are not keys of the board.
Desconhecidas == {"0"}

Entradas == Posicoes \cup Desconhecidas

Simbolos == {"X", "O"}

Valores == {" ", "X", "O"}

\* The board literal of __init__ and reiniciar.
tabuleiro_vazio == [p \in Posicoes |-> " "]

\* list(tabuleiro.values()).count(v)
Contar(tab, v) == Cardinality({p \in DOMAIN tab : tab[p] = v})

\* The tuple verificar_tabuleiro returns (see the encoding notes).
Resultado(estado, vazias, posicoes) ==
    [estado |-> estado, vazias |-> vazias, posicoes |-> posicoes]

SemResultado == Resultado("nenhum", 0, <<>>)

\* The dict exportar_estado_jogo builds, without the derived 'estatisticas'
\* entry, which importar_estado_jogo never reads.
Registro(tab, t, a) == [tabuleiro |-> tab, turno |-> t, jogo_ativo |-> a]

\* No serialised state at hand.
SemEntrada == [tabuleiro |-> <<>>]

\* The record `last` holds: op, the position given to fazer_jogada, whether
\* the operation took effect / reported success, the classification
\* fazer_jogada obtained from verificar_tabuleiro and, for a reset, the
\* operation that preceded it ("" otherwise).
UltimaApos(op, posicao, aceita, resultado, anterior) ==
    [op |-> op, posicao |-> posicao, aceita |-> aceita, resultado |-> resultado,
     anterior |-> anterior]

Ultima(op, posicao, aceita, resultado) ==
    UltimaApos(op, posicao, aceita, resultado, "")

----------------------------------------------------------------------------
(* JogoDaVelha *)

verificar_jogada_ocupada(tab, jogada) == jogada \in DOMAIN tab

\* verificar_jogada: the position is a key of the board and its cell is ' '.
verificar_jogada(tab, jogada) ==
    IF jogada \in DOMAIN tab
    THEN tab[jogada] = " "
    ELSE FALSE

\* a == b == c != ' '
Trinca(tab, a, b, c) == tab[a] = tab[b] /\ tab[b] = tab[c] /\ tab[c] # " "

verificar_tabuleiro_sem_diagonais(tab) ==
    IF Trinca(tab, "7", "4", "1") THEN Resultado(tab["7"], 0, <<"7", "4", "1">>)
    ELSE IF Trinca(tab, "8", "5", "2") THEN Resultado(tab["8"], 0, <<"8", "5", "2">>)
    ELSE IF Trinca(tab, "9", "6", "3") THEN Resultado(tab["9"], 0, <<"9", "6", "3">>)
    ELSE IF Trinca(tab, "7", "8", "9") THEN Resultado(tab["7"], 0, <<"7", "8", "9">>)
    ELSE IF Trinca(tab, "4", "5", "6") THEN Resultado(tab["4"], 0, <<"4", "5", "6">>)
    ELSE IF Trinca(tab, "1", "2", "3") THEN Resultado(tab["1"], 0, <<"1", "2", "3">>)
    ELSE IF Contar(tab, " ") = 0 THEN Resultado("empate", 0, <<>>)
    ELSE Resultado("andamento", Contar(tab, " "), <<>>)

\* The triples in the order of obter_todas_sequencias_vencedoras.
verificar_tabuleiro_horizontais_primeiro(tab) ==
    IF Trinca(tab, "7", "8", "9") THEN Resultado(tab["7"], 0, <<"7", "8", "9">>)
    ELSE IF Trinca(tab, "4", "5", "6") THEN Resultado(tab["4"], 0, <<"4", "5", "6">>)
    ELSE IF Trinca(tab, "1", "2", "3") THEN Resultado(tab["1"], 0, <<"1", "2", "3">>)
    ELSE IF Trinca(tab, "7", "4", "1") THEN Resultado(tab["7"], 0, <<"7", "4", "1">>)
    ELSE IF Trinca(tab, "8", "5", "2") THEN Resultado(tab["8"], 0, <<"8", "5", "2">>)
    ELSE IF Trinca(tab, "9", "6", "3") THEN Resultado(tab["9"], 0, <<"9", "6", "3">>)
    ELSE IF Trinca(tab, "7", "5", "3") THEN Resultado(tab["7"], 0, <<"7", "5", "3">>)
    ELSE IF Trinca(tab, "1", "5", "9") THEN Resultado(tab["1"], 0, <<"1", "5", "9">>)
    ELSE IF Contar(tab, " ") = 0 THEN Resultado("empate", 0, <<>>)
    ELSE Resultado("andamento", Contar(tab, " "), <<>>)

\* The progress value counts the filled cells instead of the empty ones.
verificar_tabuleiro_conta_preenchidas(tab) ==
    IF Trinca(tab, "7", "4", "1") THEN Resultado(tab["7"], 0, <<"7", "4", "1">>)
    ELSE IF Trinca(tab, "8", "5", "2") THEN Resultado(tab["8"], 0, <<"8", "5", "2">>)
    ELSE IF Trinca(tab, "9", "6", "3") THEN Resultado(tab["9"], 0, <<"9", "6", "3">>)
    ELSE IF Trinca(tab, "7", "8", "9") THEN Resultado(tab["7"], 0, <<"7", "8", "9">>)
    ELSE IF Trinca(tab, "4", "5", "6") THEN Resultado(tab["4"], 0, <<"4", "5", "6">>)
    ELSE IF Trinca(tab, "1", "2", "3") THEN Resultado(tab["1"], 0, <<"1", "2", "3">>)
    ELSE IF Trinca(tab, "7", "5", "3") THEN Resultado(tab["7"], 0, <<"7", "5", "3">>)
    ELSE IF Trinca(tab, "1", "5", "9") THEN Resultado(tab["1"], 0, <<"1", "5", "9">>)
    ELSE IF Contar(tab, " ") = 0 THEN Resultado("empate", 0, <<>>)
    ELSE Resultado("andamento", 9 - Contar(tab, " "), <<>>)

verificar_tabuleiro(tab) ==
    IF Trinca(tab, "7", "4", "1") THEN Resultado(tab["7"], 0, <<"7", "4", "1">>)
    ELSE IF Trinca(tab, "8", "5", "2") THEN Resultado(tab["8"], 0, <<"8", "5", "2">>)
    ELSE IF Trinca(tab, "9", "6", "3") THEN Resultado(tab["9"], 0, <<"9", "6", "3">>)
    ELSE IF Trinca(tab, "7", "8", "9") THEN Resultado(tab["7"], 0, <<"7", "8", "9">>)
    ELSE IF Trinca(tab, "4", "5", "6") THEN Resultado(tab["4"], 0, <<"4", "5", "6">>)
    ELSE IF Trinca(tab, "1", "2", "3") THEN Resultado(tab["1"], 0, <<"1", "2", "3">>)
    ELSE IF Trinca(tab, "7", "5", "3") THEN Resultado(tab["7"], 0, <<"7", "5", "3">>)
    ELSE IF Trinca(tab, "1", "5", "9") THEN Resultado(tab["1"], 0, <<"1", "5", "9">>)
    ELSE IF Contar(tab, " ") = 0 THEN Resultado("empate", 0, <<>>)
    ELSE Resultado("andamento", Contar(tab, " "), <<>>)

trocar_turno_fixo(t) == "O"

\* self.turno = "X" if self.turno == "O" else "O"
trocar_turno(t) == IF t = "O" THEN "X" ELSE "O"

\* The state reiniciar (and __init__) installs.
Novo ==
    /\ tabuleiro = tabuleiro_vazio
    /\ turno = "X"
    /\ jogo_ativo = TRUE

Init ==
    /\ tabuleiro = tabuleiro_vazio
    /\ turno = "X"
    /\ jogo_ativo = TRUE
    /\ timers = 0
    /\ aceitas = 0
    /\ last = Ultima("init", "", TRUE, SemResultado)
    /\ entrada = SemEntrada

\* The two early returns of fazer_jogada.
jogada_rejeitada_sem_ativo(posicao) == ~verificar_jogada(tabuleiro, posicao)

jogada_rejeitada(posicao) ==
    ~jogo_ativo \/ ~verificar_jogada(tabuleiro, posicao)

\* atualizar_tabuleiro_visual reads self.tabuleiro[posicao] for each of the
\* nine cells of the page and verificar_tabuleiro reads all nine keys: both
\* raise KeyError on a board that lacks one.
tabuleiro_completo(tab) == Posicoes \subseteq DOMAIN tab

\* fazer_jogada(posicao): the click handler of a cell.
fazer_jogada(posicao) ==
    IF jogada_rejeitada(posicao)
    THEN /\ last' = Ultima("fazer_jogada", posicao, FALSE, SemResultado)
         /\ UNCHANGED <<tabuleiro, turno, jogo_ativo, timers, aceitas, entrada>>
    ELSE LET tab == [tabuleiro EXCEPT ![posicao] = turno] IN
         IF ~tabuleiro_completo(tab)
         THEN \* KeyError after the cell was written: the handler stops there
              /\ UNCHANGED entrada
              /\ tabuleiro' = tab
              /\ aceitas' = aceitas + 1
              /\ last' = Ultima("fazer_jogada", posicao, TRUE, SemResultado)
              /\ UNCHANGED <<turno, jogo_ativo, timers>>
         ELSE LET resultado == verificar_tabuleiro(tab) IN
              /\ resultado.estado = "empate" => timers < MaxTimers
              /\ UNCHANGED entrada
              /\ tabuleiro' = tab
              /\ aceitas' = aceitas + 1
              /\ last' = Ultima("fazer_jogada", posicao, TRUE, resultado)
              /\ IF resultado.estado = "X" \/ resultado.estado = "O"
                 THEN /\ jogo_ativo' = FALSE
                      /\ UNCHANGED <<turno, timers>>
                 ELSE IF resultado.estado = "empate"
                 THEN /\ jogo_ativo' = FALSE
                      /\ timers' = timers + 1
                      /\ UNCHANGED turno
                 ELSE /\ turno' = trocar_turno(turno)
                      /\ UNCHANGED <<jogo_ativo, timers>>

\* A reset that forgets to give the turn back to X.
reiniciar_estado_sem_turno ==
    /\ tabuleiro' = tabuleiro_vazio
    /\ jogo_ativo' = TRUE
    /\ aceitas' = 0
    /\ UNCHANGED <<turno, entrada>>

\* A reset that clears the board but leaves the game finished.
reiniciar_estado_sem_ativar ==
    /\ tabuleiro' = tabuleiro_vazio
    /\ turno' = "X"
    /\ aceitas' = 0
    /\ UNCHANGED <<jogo_ativo, entrada>>

\* The assignments of reiniciar.
reiniciar_estado ==
    /\ tabuleiro' = tabuleiro_vazio
    /\ turno' = "X"
    /\ jogo_ativo' = TRUE
    /\ aceitas' = 0
    /\ UNCHANGED entrada

\* reiniciar(), called by the page.
reiniciar ==
    /\ reiniciar_estado
    /\ last' = UltimaApos("reiniciar", "", TRUE, SemResultado, last.op)
    /\ UNCHANGED timers

\* reiniciar_empate: the callback a draw handed to window.setTimeout fires.
reiniciar_empate ==
    /\ timers > 0
    /\ timers' = timers - 1
    /\ reiniciar_estado
    /\ last' = UltimaApos("reiniciar_empate", "", TRUE, SemResultado, last.op)

Jogar == \E p \in Entradas : fazer_jogada(p)

NextJogo == Jogar \/ reiniciar \/ reiniciar_empate

\* The game driven by clicks, resets and the draw timer only.
SpecJogo == Init /\ [][NextJogo]_vars

\* The same game in a browser that runs every callback handed to
\* window.setTimeout: a pending reiniciar_empate eventually fires, whatever
\* the user does or does not do.
SpecJogoJusto == SpecJogo /\ WF_vars(reiniciar_empate)

----------------------------------------------------------------------------
(* importar_estado_jogo *)

\* The difference test accepts O being one ahead as well.
validar_integridade_tabuleiro_abs(tab) ==
    LET count_x == Contar(tab, "X")
        count_o == Contar(tab, "O")
        diferenca == count_x - count_o
    IN  IF diferenca < -1 \/ diferenca > 1
        THEN FALSE
        ELSE \A p \in DOMAIN tab : tab[p] \in {"X", "O", " "}

\* The difference test accepts level counts only.
validar_integridade_tabuleiro_so_iguais(tab) ==
    LET count_x == Contar(tab, "X")
        count_o == Contar(tab, "O")
        diferenca == count_x - count_o
    IN  IF diferenca # 0
        THEN FALSE
        ELSE \A p \in DOMAIN tab : tab[p] \in {"X", "O", " "}

\* validar_integridade_tabuleiro: the bool of the returned pair.
validar_integridade_tabuleiro(tab) ==
    LET count_x == Contar(tab, "X")
        count_o == Contar(tab, "O")
        diferenca == count_x - count_o
    IN  IF diferenca < 0 \/ diferenca > 1
        THEN FALSE
        ELSE \A p \in DOMAIN tab : tab[p] \in {"X", "O", " "}

\* importar_estado_jogo(jogo, estado). Every step is inside one try block
\* whose handler returns False: a missing key (KeyError) ends the call where
\* it is raised, after the assignments made before it.
importar_estado_jogo(estado) ==
    /\ UNCHANGED <<timers, entrada>>
    /\ IF "tabuleiro" \notin DOMAIN estado
       THEN /\ last' = Ultima("importar_estado_jogo", "", FALSE, SemResultado)
            /\ UNCHANGED <<tabuleiro, turno, jogo_ativo, aceitas>>
       ELSE IF ~validar_integridade_tabuleiro(estado.tabuleiro)
       THEN /\ last' = Ultima("importar_estado_jogo", "", FALSE, SemResultado)
            /\ UNCHANGED <<tabuleiro, turno, jogo_ativo, aceitas>>
       ELSE /\ tabuleiro' = estado.tabuleiro
            /\ aceitas' = 0
            /\ IF "turno" \notin DOMAIN estado
               THEN /\ last' = Ultima("importar_estado_jogo", "", FALSE, SemResultado)
                    /\ UNCHANGED <<turno, jogo_ativo>>
               ELSE /\ turno' = estado.turno
                    /\ IF "jogo_ativo" \notin DOMAIN estado
                       THEN /\ last' = Ultima("importar_estado_jogo", "", FALSE, SemResultado)
                            /\ UNCHANGED jogo_ativo
                       ELSE /\ jogo_ativo' = estado.jogo_ativo
                            \* jogo.atualizar_tabuleiro_visual() reads all nine keys
                            /\ last' = Ultima("importar_estado_jogo", "",
                                              tabuleiro_completo(estado.tabuleiro),
                                              SemResultado)

\* Cell values of a serialised board: the three valid ones and a foreign one.
ValoresRegistro == Valores \cup {"?"}

\* The serialised boards with the nine positions.
TabuleirosRegistro == [Posicoes -> ValoresRegistro]

InitImportar ==
    /\ tabuleiro = tabuleiro_vazio
    /\ turno = "X"
    /\ jogo_ativo = TRUE
    /\ timers = 0
    /\ aceitas = 0
    /\ last = Ultima("init", "", TRUE, SemResultado)
    /\ \E tab \in TabuleirosRegistro, t \in Simbolos, a \in BOOLEAN :
          entrada = Registro(tab, t, a)

importar_entrada == importar_estado_jogo(entrada)

NextImportar == importar_entrada

\* importar_estado_jogo applied to every complete serialised state.
SpecImportar == InitImportar /\ [][NextImportar]_vars

----------------------------------------------------------------------------
(* exportar_estado_jogo, and the round trip into a fresh game *)

\* obter_estatisticas_tabuleiro: the counts (the three rounded percentages,
\* floats derived from the same counts, are left out).
obter_estatisticas_tabuleiro(tab) ==
    [total |-> 9,
     vazias |-> Contar(tab, " "),
     x |-> Contar(tab, "X"),
     o |-> Contar(tab, "O"),
     preenchidas |-> 9 - Contar(tab, " ")]

\* exportar_estado_jogo(jogo): the dict built from the game as it stands.
exportar_estado_jogo ==
    [tabuleiro |-> tabuleiro,
     turno |-> turno,
     jogo_ativo |-> jogo_ativo,
     estatisticas |-> obter_estatisticas_tabuleiro(tabuleiro)]

\* The game is exported and a second, fresh JogoDaVelha() is created; from
\* here on the variables describe that second game and `entrada` holds the
\* exported dict.
exportar_para_novo ==
    /\ entrada = SemEntrada
    /\ entrada' = exportar_estado_jogo
    /\ tabuleiro' = tabuleiro_vazio
    /\ turno' = "X"
    /\ jogo_ativo' = TRUE
    /\ aceitas' = 0
    /\ last' = Ultima("exportar_estado_jogo", "", TRUE, SemResultado)
    /\ UNCHANGED timers

\* The first game is played until it is exported.
JogarPrimeiro == entrada = SemEntrada /\ NextJogo

\* The exported dict is imported into the second game.
ImportarExportado == entrada # SemEntrada /\ importar_entrada

NextIdaEVolta == JogarPrimeiro \/ exportar_para_novo \/ ImportarExportado

\* Play, then export, then import into a fresh game.
SpecIdaEVolta == Init /\ [][NextIdaEVolta]_vars

----------------------------------------------------------------------------
(* The game with imports interleaved *)

\* The board with X on xs, O on os and the other cells empty.
TabuleiroDe(xs, os) ==
    [p \in Posicoes |-> IF p \in xs THEN "X" ELSE IF p \in os THEN "O" ELSE " "]

\* The full board 7:X 8:O 9:X 4:X 5:O 6:O 1:O 2:X 3:X (no completed triple).
Cenario2 == TabuleiroDe({"7", "9", "4", "2", "3"}, {"8", "5", "6", "1"})

\* The serialised boards offered to importar_estado_jogo between moves, all
\* of them late in a game: X one ahead, level counts, a completed triple
\* with valid counts, three X against one O, a full board, a foreign cell
\* value, and a dict that lacks a position.
TabuleirosImportados ==
    { TabuleiroDe({"7", "8", "6"}, {"9", "4"}),
      TabuleiroDe({"7", "8", "6"}, {"9", "4", "5"}),
      TabuleiroDe({"7", "8", "9"}, {"4", "5"}),
      TabuleiroDe({"7", "8", "4"}, {"5"}),
      Cenario2,
      [TabuleiroDe({"7", "8", "6"}, {"9", "4", "5"}) EXCEPT !["1"] = "?"],
      [p \in Posicoes \ {"3"} |-> TabuleiroDe({"7", "8", "6"}, {"9", "4"})[p]] }

\* The turn field of those records: the two symbols and a foreign string.
TurnosImportados == {"X", "O", "Z"}

\* The records offered: complete ones, and ones lacking 'turno',
\* 'jogo_ativo' or 'tabuleiro'.
Registros ==
    {Registro(tab, t, a) : tab \in TabuleirosImportados,
                           t \in TurnosImportados, a \in BOOLEAN}
    \cup {[tabuleiro |-> tab, jogo_ativo |-> FALSE] : tab \in TabuleirosImportados}
    \cup {[tabuleiro |-> tab, turno |-> "O"] : tab \in TabuleirosImportados}
    \cup {[turno |-> "O", jogo_ativo |-> FALSE]}

Importar == \E estado \in Registros : importar_estado_jogo(estado)

Next == Jogar \/ reiniciar \/ reiniciar_empate \/ Importar

Spec == Init /\ [][Next]_vars

----------------------------------------------------------------------------
(* The game with imports of complete records interleaved *)

\* The serialised boards of complete records: those of TabuleirosImportados
\* that have all nine positions, and a dict with a tenth key.
TabuleirosInteiros ==
    {tab \in TabuleirosImportados : tabuleiro_completo(tab)}
    \cup { [p \in Posicoes \cup {"0"} |->
              IF p = "0" THEN " " ELSE TabuleiroDe({"7", "8", "6"}, {"9", "4", "5"})[p]] }

\* Records with the three fields and a board that has every position: the
\* import either fails at the integrity test, before any assignment, or
\* runs to its end and reports success.
RegistrosInteiros ==
    {Registro(tab, t, a) : tab \in TabuleirosInteiros,
                           t \in TurnosImportados, a \in BOOLEAN}

ImportarInteiro == \E estado \in RegistrosInteiros : importar_estado_jogo(estado)

NextInteiros == Jogar \/ reiniciar \/ reiniciar_empate \/ ImportarInteiro

SpecInteiros == Init /\ [][NextInteiros]_vars

----------------------------------------------------------------------------
(* The advisory functions: critical positions, heuristic, best move *)

\* The table in the order in which verificar_tabuleiro tests the lines.
obter_todas_sequencias_vencedoras_ordem_do_detector ==
    << <<"7", "4", "1">>, <<"8", "5", "2">>, <<"9", "6", "3">>,
       <<"7", "8", "9">>, <<"4", "5", "6">>, <<"1", "2", "3">>,
       <<"7", "5", "3">>, <<"1", "5", "9">> >>

\* obter_todas_sequencias_vencedoras: horizontals, verticals, diagonals.
obter_todas_sequencias_vencedoras ==
    << <<"7", "8", "9">>, <<"4", "5", "6">>, <<"1", "2", "3">>,
       <<"7", "4", "1">>, <<"8", "5", "2">>, <<"9", "6", "3">>,
       <<"7", "5", "3">>, <<"1", "5", "9">> >>

\* [tabuleiro[pos] for pos in seq].count(v)
contar_valores(tab, seq, v) == Cardinality({k \in 1..Len(seq) : tab[seq[k]] = v})

\* The membership test never finds the position.
contem_nunca(lista, pos) == FALSE

\* `pos in lista` for a Python list.
contem(lista, pos) == \E k \in 1..Len(lista) : lista[k] = pos

\* The list posicoes_criticas after the first n sequences of the loop.
RECURSIVE posicoes_criticas_ate(_, _, _)
posicoes_criticas_ate(tab, simbolo, n) ==
    IF n = 0
    THEN <<>>
    ELSE LET posicoes_criticas == posicoes_criticas_ate(tab, simbolo, n - 1)
             seq == obter_todas_sequencias_vencedoras[n]
         IN  IF contar_valores(tab, seq, simbolo) = 2 /\ contar_valores(tab, seq, " ") = 1
             THEN LET i == CHOOSE k \in 1..Len(seq) : tab[seq[k]] = " "
                  IN  IF contem(posicoes_criticas, seq[i])
                      THEN posicoes_criticas
                      ELSE Append(posicoes_criticas, seq[i])
             ELSE posicoes_criticas

analisar_posicoes_criticas(tab, simbolo) ==
    posicoes_criticas_ate(tab, simbolo, Len(obter_todas_sequencias_vencedoras))

\* A completed sequence is worth no more than an almost completed one.
pontuar_sequencia_vitoria_dez(tab, seq, simbolo) ==
    LET count_simbolo == contar_valores(tab, seq, simbolo)
        count_vazio == contar_valores(tab, seq, " ")
        count_oponente == 3 - count_simbolo - count_vazio
    IN  IF count_oponente > 0 THEN 0
        ELSE IF count_simbolo = 3 THEN 10
        ELSE IF count_simbolo = 2 /\ count_vazio = 1 THEN 10
        ELSE IF count_simbolo = 1 /\ count_vazio = 2 THEN 1
        ELSE 0

\* The last branch (one cell held, two empty) is missing.
pontuar_sequencia_sem_possibilidade(tab, seq, simbolo) ==
    LET count_simbolo == contar_valores(tab, seq, simbolo)
        count_vazio == contar_valores(tab, seq, " ")
        count_oponente == 3 - count_simbolo - count_vazio
    IN  IF count_oponente > 0 THEN 0
        ELSE IF count_simbolo = 3 THEN 100
        ELSE IF count_simbolo = 2 /\ count_vazio = 1 THEN 10
        ELSE 0

\* The body of calcular_heuristica_tabuleiro's loop: what one sequence adds
\* to pontuacao.
pontuar_sequencia(tab, seq, simbolo) ==
    LET count_simbolo == contar_valores(tab, seq, simbolo)
        count_vazio == contar_valores(tab, seq, " ")
        count_oponente == 3 - count_simbolo - count_vazio
    IN  IF count_oponente > 0 THEN 0
        ELSE IF count_simbolo = 3 THEN 100
        ELSE IF count_simbolo = 2 /\ count_vazio = 1 THEN 10
        ELSE IF count_simbolo = 1 /\ count_vazio = 2 THEN 1
        ELSE 0

\* pontuacao after the first n sequences of the loop.
RECURSIVE pontuacao_ate(_, _, _)
pontuacao_ate(tab, simbolo, n) ==
    IF n = 0
    THEN 0
    ELSE pontuacao_ate(tab, simbolo, n - 1)
         + pontuar_sequencia(tab, obter_todas_sequencias_vencedoras[n], simbolo)

calcular_heuristica_tabuleiro(tab, simbolo) ==
    pontuacao_ate(tab, simbolo, Len(obter_todas_sequencias_vencedoras))

\* tabuleiro.keys() of a board built by __init__ or reiniciar: a dict keeps
\* the order in which its keys were inserted.
chaves == <<"7", "8", "9", "4", "5", "6", "1", "2", "3">>

\* cantos = ['1', '3', '7', '9']
cantos == <<"1", "3", "7", "9">>

\* The return value None of obter_melhor_jogada.
None == "None"

\* The opponent's winning cell is looked at before the caller's own.
obter_melhor_jogada_bloqueia_primeiro(tab, simbolo) ==
    LET posicoes_criticas_proprias == analisar_posicoes_criticas(tab, simbolo)
        simbolo_oponente == IF simbolo = "X" THEN "O" ELSE "X"
        posicoes_criticas_oponente == analisar_posicoes_criticas(tab, simbolo_oponente)
        posicoes_disponiveis == SelectSeq(chaves, LAMBDA pos : tab[pos] = " ")
        cantos_disponiveis == SelectSeq(cantos, LAMBDA pos : contem(posicoes_disponiveis, pos))
    IN  IF posicoes_criticas_oponente # <<>> THEN posicoes_criticas_oponente[1]
        ELSE IF posicoes_criticas_proprias # <<>> THEN posicoes_criticas_proprias[1]
        ELSE IF posicoes_disponiveis = <<>> THEN None
        ELSE IF contem(posicoes_disponiveis, "5") THEN "5"
        ELSE IF cantos_disponiveis # <<>> THEN cantos_disponiveis[1]
        ELSE posicoes_disponiveis[1]

\* The centre is taken before the opponent is blocked.
obter_melhor_jogada_centro_primeiro(tab, simbolo) ==
    LET posicoes_criticas_proprias == analisar_posicoes_criticas(tab, simbolo)
        simbolo_oponente == IF simbolo = "X" THEN "O" ELSE "X"
        posicoes_criticas_oponente == analisar_posicoes_criticas(tab, simbolo_oponente)
        posicoes_disponiveis == SelectSeq(chaves, LAMBDA pos : tab[pos] = " ")
        cantos_disponiveis == SelectSeq(cantos, LAMBDA pos : contem(posicoes_disponiveis, pos))
    IN  IF posicoes_criticas_proprias # <<>> THEN posicoes_criticas_proprias[1]
        ELSE IF contem(posicoes_disponiveis, "5") THEN "5"
        ELSE IF posicoes_criticas_oponente # <<>> THEN posicoes_criticas_oponente[1]
        ELSE IF posicoes_disponiveis = <<>> THEN None
        ELSE IF cantos_disponiveis # <<>> THEN cantos_disponiveis[1]
        ELSE posicoes_disponiveis[1]

\* The available positions are listed in numeric order '1'..'9'.
obter_melhor_jogada_ordem_numerica(tab, simbolo) ==
    LET posicoes_criticas_proprias == analisar_posicoes_criticas(tab, simbolo)
        simbolo_oponente == IF simbolo = "X" THEN "O" ELSE "X"
        posicoes_criticas_oponente == analisar_posicoes_criticas(tab, simbolo_oponente)
        posicoes_disponiveis ==
            SelectSeq(<<"1", "2", "3", "4", "5", "6", "7", "8", "9">>,
                      LAMBDA pos : tab[pos] = " ")
        cantos_disponiveis == SelectSeq(cantos, LAMBDA pos : contem(posicoes_disponiveis, pos))
    IN  IF posicoes_criticas_proprias # <<>> THEN posicoes_criticas_proprias[1]
        ELSE IF posicoes_criticas_oponente # <<>> THEN posicoes_criticas_oponente[1]
        ELSE IF posicoes_disponiveis = <<>> THEN None
        ELSE IF contem(posicoes_disponiveis, "5") THEN "5"
        ELSE IF cantos_disponiveis # <<>> THEN cantos_disponiveis[1]
        ELSE posicoes_disponiveis[1]

obter_melhor_jogada(tab, simbolo) ==
    LET posicoes_criticas_proprias == analisar_posicoes_criticas(tab, simbolo)
        simbolo_oponente == IF simbolo = "X" THEN "O" ELSE "X"
        posicoes_criticas_oponente == analisar_posicoes_criticas(tab, simbolo_oponente)
        posicoes_disponiveis == SelectSeq(chaves, LAMBDA pos : tab[pos] = " ")
        cantos_disponiveis == SelectSeq(cantos, LAMBDA pos : contem(posicoes_disponiveis, pos))
    IN  IF posicoes_criticas_proprias # <<>> THEN posicoes_criticas_proprias[1]
        ELSE IF posicoes_criticas_oponente # <<>> THEN posicoes_criticas_oponente[1]
        ELSE IF posicoes_disponiveis = <<>> THEN None
        ELSE IF contem(posicoes_disponiveis, "5") THEN "5"
        ELSE IF cantos_disponiveis # <<>> THEN cantos_disponiveis[1]
        ELSE posicoes_disponiveis[1]

\* The record of a call f(tabuleiro, simbolo) of an advisory function and
\* of the value it returned.
Chamada(op, simbolo, retorno) ==
    [op |-> op, simbolo |-> simbolo, retorno |-> retorno]

----------------------------------------------------------------------------
(* The pure functions, applied to every board over ' ', 'X', 'O' *)

InitTabuleiros ==
    /\ tabuleiro \in [Posicoes -> Valores]
    /\ turno = "X"
    /\ jogo_ativo = TRUE
    /\ timers = 0
    /\ aceitas = 0
    /\ last = Ultima("init", "", TRUE, SemResultado)
    /\ entrada = SemEntrada

\* A call of jogo.verificar_tabuleiro() on the board as it stands.  Each
\* behaviour makes one call: the functions of this section read the board
\* and change nothing, so a second call would see what the first one saw.
chamar_verificar_tabuleiro ==
    /\ last.op = "init"
    /\ last' = Ultima("verificar_tabuleiro", "", TRUE, verificar_tabuleiro(tabuleiro))
    /\ UNCHANGED <<tabuleiro, turno, jogo_ativo, timers, aceitas, entrada>>

chamar_analisar_posicoes_criticas ==
    /\ last.op = "init"
    /\ \E simbolo \in Simbolos :
          last' = Chamada("analisar_posicoes_criticas", simbolo,
                          analisar_posicoes_criticas(tabuleiro, simbolo))
    /\ UNCHANGED <<tabuleiro, turno, jogo_ativo, timers, aceitas, entrada>>

chamar_calcular_heuristica_tabuleiro ==
    /\ last.op = "init"
    /\ \E simbolo \in Simbolos :
          last' = Chamada("calcular_heuristica_tabuleiro", simbolo,
                          calcular_heuristica_tabuleiro(tabuleiro, simbolo))
    /\ UNCHANGED <<tabuleiro, turno, jogo_ativo, timers, aceitas, entrada>>

chamar_obter_melhor_jogada ==
    /\ last.op = "init"
    /\ \E simbolo \in Simbolos :
          last' = Chamada("obter_melhor_jogada", simbolo,
                          obter_melhor_jogada(tabuleiro, simbolo))
    /\ UNCHANGED <<tabuleiro, turno, jogo_ativo, timers, aceitas, entrada>>

NextTabuleiros ==
    \/ chamar_verificar_tabuleiro
    \/ chamar_analisar_posicoes_criticas
    \/ chamar_calcular_heuristica_tabuleiro
    \/ chamar_obter_melhor_jogada

SpecTabuleiros == InitTabuleiros /\ [][NextTabuleiros]_vars

----------------------------------------------------------------------------
(* criar_linha_vitoria: the classification of the winning line *)

\* The bounding box of a cell relative to the board (lines 291-295).  The
\* centre is kept doubled, left + right and top + bottom, so that it stays
\* an integer: |centerY(a) - centerY(b)| < 5 is |centroY2(a) - centroY2(b)| < 10.
centroX2(rect) == rect.left + rect.right

centroY2(rect) == rect.top + rect.bottom

\* abs()
abs(n) == IF n < 0 THEN 0 - n ELSE n

\* int(p) for a position string.
int(p) == CHOOSE n \in 1..9 : <<"1", "2", "3", "4", "5", "6", "7", "8", "9">>[n] = p

\* The permutations of 1..3.
Permutacoes3 == {f \in [1..3 -> 1..3] : {f[1], f[2], f[3]} = 1..3}

\* The position digits are joined in the order given.
sorted_pos_sem_ordenar(posicoes) == [k \in 1..3 |-> int(posicoes[k])]

\* sorted([int(p) for p in posicoes]): pos_str is the concatenation of
\* these one-digit numbers.
sorted_pos(posicoes) ==
    LET f == CHOOSE g \in Permutacoes3 :
                /\ \A i, j \in 1..3 : i < j => int(posicoes[g[i]]) <= int(posicoes[g[j]])
                /\ \A i, j \in 1..3 :
                      (i < j /\ int(posicoes[g[i]]) = int(posicoes[g[j]])) => g[i] < g[j]
    IN  [k \in 1..3 |-> int(posicoes[f[k]])]

\* The key (top, left) of a is smaller than that of b.
chave_menor(a, b) == a.top < b.top \/ (a.top = b.top /\ a.left < b.left)

\* sorted(rects, key=lambda r: (r['top'], r['left'])): a stable sort.
rects_sorted(rects) ==
    LET f == CHOOSE g \in Permutacoes3 :
                /\ \A i, j \in 1..3 : i < j => ~chave_menor(rects[g[j]], rects[g[i]])
                /\ \A i, j \in 1..3 :
                      (/\ i < j
                       /\ ~chave_menor(rects[g[i]], rects[g[j]])
                       /\ ~chave_menor(rects[g[j]], rects[g[i]])) => g[i] < g[j]
    IN  [k \in 1..3 |-> rects[f[k]]]

\* The value of `tipo` criar_linha_vitoria ends with for three positions
\* and the rectangles of their cells ("" when the line is not recognised).
criar_linha_vitoria(posicoes, rects) ==
    LET ordenados == rects_sorted(rects)
        pos_str == sorted_pos(posicoes)
        is_diagonal == pos_str = <<3, 5, 7>> \/ pos_str = <<1, 5, 9>>
        is_horizontal ==
            /\ abs(centroY2(ordenados[1]) - centroY2(ordenados[2])) < 2 * 5
            /\ abs(centroY2(ordenados[2]) - centroY2(ordenados[3])) < 2 * 5
        is_vertical ==
            /\ abs(centroX2(ordenados[1]) - centroX2(ordenados[2])) < 2 * 5
            /\ abs(centroX2(ordenados[2]) - centroX2(ordenados[3])) < 2 * 5
    IN  IF is_diagonal
        THEN IF pos_str = <<3, 5, 7>> THEN "diagonal-1" ELSE "diagonal-2"
        ELSE IF is_horizontal THEN "horizontal"
        ELSE IF is_vertical THEN "vertical"
        ELSE ""

\* Coordinates of the rectangles.
Coordenadas == {4 * k : k \in 0..MaxPasso}

\* Cell rectangles: squares of side 100 placed on those coordinates.
Retangulos ==
    {[left |-> l, top |-> t, right |-> l + 100, bottom |-> t + 100] :
        l \in Coordenadas, t \in Coordenadas}

\* The position triples given to criar_linha_vitoria: the eight winning
\* lines in every order, every three distinct positions in ascending order,
\* and the triples over 1, 5, 9 with repetitions.
PosicoesDaLinha ==
    {[k \in 1..3 |-> obter_todas_sequencias_vencedoras[i][f[k]]] :
        i \in 1..Len(obter_todas_sequencias_vencedoras), f \in Permutacoes3}
    \cup {seq \in [1..3 -> Posicoes] :
            int(seq[1]) < int(seq[2]) /\ int(seq[2]) < int(seq[3])}
    \cup [1..3 -> {"1", "5", "9"}]

InitLinha ==
    /\ tabuleiro = tabuleiro_vazio
    /\ turno = "X"
    /\ jogo_ativo = TRUE
    /\ timers = 0
    /\ aceitas = 0
    /\ last = Ultima("init", "", TRUE, SemResultado)
    /\ \E posicoes \in PosicoesDaLinha, rects \in [1..3 -> Retangulos] :
          entrada = [posicoes |-> posicoes, rects |-> rects]

\* A call self.criar_linha_vitoria(posicoes) with the cells laid out as
\* entrada.rects says.
chamar_criar_linha_vitoria ==
    /\ last.op = "init"
    /\ last' = Chamada("criar_linha_vitoria", "",
                       criar_linha_vitoria(entrada.posicoes, entrada.rects))
    /\ UNCHANGED <<tabuleiro, turno, jogo_ativo, timers, aceitas, entrada>>

NextLinha == chamar_criar_linha_vitoria

SpecLinha == InitLinha /\ [][NextLinha]_vars

----------------------------------------------------------------------------
(* Properties of the game driven by fazer_jogada and reiniciar (SpecJogo) *)

\* The eight winning triples in the order the detector is said to scan them.
OrdemDetector ==
    << <<"7", "4", "1">>, <<"8", "5", "2">>, <<"9", "6", "3">>,
       <<"7", "8", "9">>, <<"4", "5", "6">>, <<"1", "2", "3">>,
       <<"7", "5", "3">>, <<"1", "5", "9">> >>

\* Triple i is completely occupied by one symbol.
Completa(tab, i) ==
    LET t == OrdemDetector[i] IN
    /\ tab[t[1]] # " "
    /\ tab[t[1]] = tab[t[2]]
    /\ tab[t[1]] = tab[t[3]]

Completas(tab) == {i \in 1..Len(OrdemDetector) : Completa(tab, i)}

Diferenca(tab) == Contar(tab, "X") - Contar(tab, "O")

EhReinicio(op) == op = "reiniciar" \/ op = "reiniciar_empate"

\* C1: in every state reachable from a fresh game by fazer_jogada (any
\* input) and reiniciar, count(X) - count(O) is 0 or 1.
C1_DiferencaXO == Diferenca(tabuleiro) \in {0, 1}

\* A rejected call on a board where X is one ahead, five cells filled.
C1_Witness ==
    /\ last.op = "fazer_jogada"
    /\ ~last.aceita
    /\ Contar(tabuleiro, "X") = 3
    /\ Contar(tabuleiro, "O") = 2

\* The input p of a fazer_jogada call is one the claim says is rejected.
DeveRejeitar(p) ==
    \/ p \notin Posicoes
    \/ tabuleiro[p] # " "
    \/ ~jogo_ativo

\* The same, of the state after the call.
DeveRejeitarDepois(p) ==
    \/ p \notin Posicoes
    \/ tabuleiro'[p] # " "
    \/ ~jogo_ativo'

\* C2: fazer_jogada(p) with an unrecognized position, an occupied cell or an
\* inactive game leaves tabuleiro, turno and jogo_ativo as they were, and the
\* same call is rejected again afterwards.
C2_RejeicaoSemEfeito ==
    [][(last'.op = "fazer_jogada" /\ DeveRejeitar(last'.posicao))
        => /\ UNCHANGED <<tabuleiro, turno, jogo_ativo>>
           /\ ~last'.aceita
           /\ DeveRejeitarDepois(last'.posicao)]_vars

\* A move on an occupied cell of an active game was rejected.
C2_Witness ==
    /\ last.op = "fazer_jogada"
    /\ ~last.aceita
    /\ jogo_ativo
    /\ last.posicao \in Posicoes
    /\ tabuleiro[last.posicao] = "O"

\* C3: the k-th accepted move of a game places X when k is odd and O when k
\* is even, an accepted move that leaves the game in progress toggles turno,
\* a rejected move does not, and reiniciar sets turno to X.
C3_TurnoAlterna ==
    [][/\ (last'.op = "fazer_jogada" /\ last'.aceita)
            => /\ tabuleiro'[last'.posicao] = (IF aceitas' % 2 = 1 THEN "X" ELSE "O")
               /\ jogo_ativo' => /\ turno = "X" => turno' = "O"
                                 /\ turno = "O" => turno' = "X"
       /\ (last'.op = "fazer_jogada" /\ ~last'.aceita) => turno' = turno
       /\ EhReinicio(last'.op) => turno' = "X"]_vars

\* The fourth accepted move left the game in progress with X to play.
C3_Witness ==
    /\ last.op = "fazer_jogada"
    /\ last.aceita
    /\ aceitas = 4
    /\ jogo_ativo
    /\ turno = "X"

\* C4: jogo_ativo is false exactly when the board holds a completed triple
\* or no empty cell; once false it stays false and no move is accepted until
\* reiniciar is called.
C4_FimDeJogo ==
    /\ [](~jogo_ativo <=> (Completas(tabuleiro) # {} \/ Contar(tabuleiro, " ") = 0))
    /\ [][(~jogo_ativo /\ ~EhReinicio(last'.op))
            => /\ ~jogo_ativo'
               /\ tabuleiro' = tabuleiro
               /\ ~last'.aceita]_vars

\* A move on an empty cell of a finished game was refused.
C4_Witness ==
    /\ ~jogo_ativo
    /\ last.op = "fazer_jogada"
    /\ ~last.aceita
    /\ last.posicao \in Posicoes
    /\ tabuleiro[last.posicao] = " "

\* C7 as stated: at most one of the 8 triples is completely occupied by one
\* symbol at the same time.
C7_NoMaximoUmaTrinca == Cardinality(Completas(tabuleiro)) <= 1

\* C7 amended: at most two triples are completed at the same time, and when
\* two are, both hold the same symbol and cross in one cell.
C7_NoMaximoDuasTrincas ==
    /\ Cardinality(Completas(tabuleiro)) <= 2
    /\ \A i, j \in Completas(tabuleiro) :
          /\ tabuleiro[OrdemDetector[i][1]] = tabuleiro[OrdemDetector[j][1]]
          /\ \E p \in Posicoes :
                /\ \E k \in 1..3 : OrdemDetector[i][k] = p
                /\ \E k \in 1..3 : OrdemDetector[j][k] = p

\* One move completed two triples.
C7_Witness ==
    /\ last.op = "fazer_jogada"
    /\ last.aceita
    /\ Cardinality(Completas(tabuleiro)) = 2

----------------------------------------------------------------------------
(* Properties of verificar_tabuleiro on arbitrary boards (SpecTabuleiros) *)

\* The least element of a non-empty set of naturals.
Menor(S) == CHOOSE i \in S : \A j \in S : i <= j

\* C5: on every board with a completed triple (several, or a full board,
\* included) verificar_tabuleiro returns Win(symbol, triple) for the first
\* completed triple in the order 7-4-1, 8-5-2, 9-6-3, 7-8-9, 4-5-6, 1-2-3,
\* 7-5-3, 1-5-9; a completed triple takes precedence over Draw.
C5_PrimeiraTrincaVence ==
    (last.op = "verificar_tabuleiro" /\ Completas(tabuleiro) # {})
        => LET t == OrdemDetector[Menor(Completas(tabuleiro))] IN
           /\ last.resultado.estado = tabuleiro[t[1]]
           /\ last.resultado.estado \in Simbolos
           /\ last.resultado.posicoes = t

\* A full board with two completed columns of different symbols was
\* classified (the column scanned first wins, and it is no draw).
C5_Witness ==
    /\ last.op = "verificar_tabuleiro"
    /\ Contar(tabuleiro, " ") = 0
    /\ Completas(tabuleiro) = {2, 3}
    /\ tabuleiro["8"] # tabuleiro["9"]
    /\ last.resultado.posicoes = <<"8", "5", "2">>

\* C6: on every board with no completed triple verificar_tabuleiro returns
\* Draw exactly when no cell is Empty and otherwise InProgress with the
\* number of Empty cells (1..9); on every board the result is one of Win,
\* Draw, InProgress; the board of Cenario2 yields Draw.
C6_EmpateOuAndamento ==
    last.op = "verificar_tabuleiro"
        => /\ last.resultado.estado \in Simbolos \cup {"empate", "andamento"}
           /\ Completas(tabuleiro) = {}
                => IF Contar(tabuleiro, " ") = 0
                   THEN last.resultado = Resultado("empate", 0, <<>>)
                   ELSE /\ last.resultado =
                              Resultado("andamento", Contar(tabuleiro, " "), <<>>)
                        /\ last.resultado.vazias \in 1..9
           /\ last.resultado.estado \in {"empate", "andamento"}
                => Completas(tabuleiro) = {}
           /\ tabuleiro = Cenario2 => last.resultado.estado = "empate"

\* The board of Cenario2 was classified a draw.
C6_Witness ==
    /\ last.op = "verificar_tabuleiro"
    /\ tabuleiro = Cenario2
    /\ last.resultado.estado = "empate"

----------------------------------------------------------------------------
(* Properties of importar_estado_jogo on complete records (SpecImportar) *)

\* C10: for a record with the nine positions and the turn and active fields,
\* importar_estado_jogo fails exactly when count(X) - count(O) is not 0 or 1
\* or some cell is outside {Empty, X, O}; otherwise it succeeds and the game
\* holds the record's board, turn and active flag; a board with three X and
\* one O is rejected.
C10_ImportaSeIntegro ==
    last.op = "importar_estado_jogo"
        => /\ ~last.aceita <=>
                \/ Diferenca(entrada.tabuleiro) \notin {0, 1}
                \/ \E p \in Posicoes : entrada.tabuleiro[p] \notin Valores
           /\ last.aceita => /\ tabuleiro = entrada.tabuleiro
                             /\ turno = entrada.turno
                             /\ jogo_ativo = entrada.jogo_ativo
           /\ (Contar(entrada.tabuleiro, "X") = 3 /\ Contar(entrada.tabuleiro, "O") = 1)
                => ~last.aceita

\* A record with three X and one O (and only valid cells) was refused.
C10_Witness ==
    /\ last.op = "importar_estado_jogo"
    /\ ~last.aceita
    /\ Contar(entrada.tabuleiro, "X") = 3
    /\ Contar(entrada.tabuleiro, "O") = 1
    /\ Contar(entrada.tabuleiro, " ") = 5

----------------------------------------------------------------------------
(* Properties of the game with imports interleaved (Spec) *)

\* C8: from any reachable state (in progress, won, drawn, or after an
\* import) reiniciar yields all 9 cells Empty, turno = X and jogo_ativo true.
C8_ReiniciarRestaura ==
    [][EhReinicio(last'.op)
        => /\ DOMAIN tabuleiro' = Posicoes
           /\ \A p \in Posicoes : tabuleiro'[p] = " "
           /\ turno' = "X"
           /\ jogo_ativo' = TRUE]_vars

\* reiniciar has just reset a game whose state came from an import.
C8_Witness ==
    /\ last.op = "reiniciar"
    /\ last.anterior = "importar_estado_jogo"
    /\ Novo

\* C9: when importar_estado_jogo reports failure, for any record, the
\* game's tabuleiro, turno and jogo_ativo are what they were before the call.
C9_FalhaSemEfeito ==
    [][(last'.op = "importar_estado_jogo" /\ ~last'.aceita)
        => UNCHANGED <<tabuleiro, turno, jogo_ativo>>]_vars

----------------------------------------------------------------------------
(* Properties of the export / import round trip (SpecIdaEVolta) *)

\* C11: for every state S reachable by fazer_jogada and reiniciar, the dict
\* exportar_estado_jogo builds from S holds S's board, turn and active flag,
\* and importing it into a fresh game succeeds and leaves that game with the
\* same board, turn and active flag.
C11_IdaEVolta ==
    /\ [][last'.op = "exportar_estado_jogo"
            => /\ entrada'.tabuleiro = tabuleiro
               /\ entrada'.turno = turno
               /\ entrada'.jogo_ativo = jogo_ativo
               /\ tabuleiro' = [p \in Posicoes |-> " "]
               /\ turno' = "X"
               /\ jogo_ativo']_vars
    /\ [][(last.op = "exportar_estado_jogo" /\ last'.op = "importar_estado_jogo")
            => /\ last'.aceita
               /\ tabuleiro' = entrada.tabuleiro
               /\ turno' = entrada.turno
               /\ jogo_ativo' = entrada.jogo_ativo]_vars

\* A game X won with its fifth move (X one ahead, finished, turno X) came
\* back from the round trip.
C11_Witness ==
    /\ last.op = "importar_estado_jogo"
    /\ last.aceita
    /\ entrada.estatisticas.x = 3
    /\ entrada.estatisticas.o = 2
    /\ tabuleiro = entrada.tabuleiro
    /\ Completas(tabuleiro) # {}
    /\ ~jogo_ativo
    /\ turno = "X"

----------------------------------------------------------------------------
(* Properties of the advisory functions on arbitrary boards (SpecTabuleiros) *)

\* The empty cells that would complete a triple for symbol s: the other two
\* cells of some triple hold s.
PosicoesCriticas(tab, s) ==
    {p \in Posicoes :
        /\ tab[p] = " "
        /\ \E i \in 1..Len(OrdemDetector) :
              \E k \in 1..3 :
                 /\ OrdemDetector[i][k] = p
                 /\ \A j \in (1..3) \ {k} : tab[OrdemDetector[i][j]] = s}

Oponente(s) == CHOOSE o \in Simbolos : o # s

\* C12: whenever symbol s has a critical position on the board,
\* obter_melhor_jogada(board, s) returns one of s's critical positions; with
\* X on 7 and 5 and the rest empty it returns 3 for X.
C12_GanhaSePode ==
    last.op = "obter_melhor_jogada" =>
        /\ PosicoesCriticas(tabuleiro, last.simbolo) # {}
              => last.retorno \in PosicoesCriticas(tabuleiro, last.simbolo)
        /\ (tabuleiro = TabuleiroDe({"7", "5"}, {}) /\ last.simbolo = "X")
              => last.retorno = "3"

\* Both players have a winning cell and the caller's own one, which does
\* not block the opponent, was returned.
C12_Witness ==
    /\ last.op = "obter_melhor_jogada"
    /\ PosicoesCriticas(tabuleiro, Oponente(last.simbolo)) # {}
    /\ last.retorno \in PosicoesCriticas(tabuleiro, last.simbolo)
    /\ last.retorno \notin PosicoesCriticas(tabuleiro, Oponente(last.simbolo))

\* C13: when symbol s has no critical position and its opponent has one,
\* obter_melhor_jogada(board, s) returns one of the opponent's critical
\* positions.
C13_BloqueiaSePrecisa ==
    (/\ last.op = "obter_melhor_jogada"
     /\ PosicoesCriticas(tabuleiro, last.simbolo) = {}
     /\ PosicoesCriticas(tabuleiro, Oponente(last.simbolo)) # {})
        => last.retorno \in PosicoesCriticas(tabuleiro, Oponente(last.simbolo))

\* The opponent was blocked although the centre was free.
C13_Witness ==
    /\ last.op = "obter_melhor_jogada"
    /\ PosicoesCriticas(tabuleiro, last.simbolo) = {}
    /\ tabuleiro["5"] = " "
    /\ last.retorno # "5"
    /\ last.retorno \in PosicoesCriticas(tabuleiro, Oponente(last.simbolo))

Vazias(tab) == {p \in Posicoes : tab[p] = " "}

\* The first element of the sequence ordem that lies in S.
PrimeiraEm(ordem, S) == ordem[Menor({k \in 1..Len(ordem) : ordem[k] \in S})]

\* C14: on a board where neither symbol has a critical position,
\* obter_melhor_jogada returns 5 if the centre is empty, else the first empty
\* corner in the order 1, 3, 7, 9, else the first empty position in the order
\* 7, 8, 9, 4, 5, 6, 1, 2, 3; on every board it returns none exactly when no
\* cell is empty, and a position it returns is empty.
C14_CentroCantosResto ==
    last.op = "obter_melhor_jogada" =>
        /\ (last.retorno = "None") <=> (Vazias(tabuleiro) = {})
        /\ last.retorno # "None" => last.retorno \in Vazias(tabuleiro)
        /\ (/\ PosicoesCriticas(tabuleiro, "X") = {}
            /\ PosicoesCriticas(tabuleiro, "O") = {}
            /\ Vazias(tabuleiro) # {})
              => last.retorno =
                    IF "5" \in Vazias(tabuleiro)
                    THEN "5"
                    ELSE IF Vazias(tabuleiro) \cap {"1", "3", "7", "9"} # {}
                    THEN PrimeiraEm(<<"1", "3", "7", "9">>, Vazias(tabuleiro))
                    ELSE PrimeiraEm(<<"7", "8", "9", "4", "5", "6", "1", "2", "3">>,
                                    Vazias(tabuleiro))

\* Centre and corners are taken, nobody can win at once, and of the empty
\* edges 4 and 2 the one declared first, 4, was returned.
C14_Witness ==
    /\ last.op = "obter_melhor_jogada"
    /\ PosicoesCriticas(tabuleiro, "X") = {}
    /\ PosicoesCriticas(tabuleiro, "O") = {}
    /\ Vazias(tabuleiro) \cap {"5", "1", "3", "7", "9"} = {}
    /\ {"4", "2"} \subseteq Vazias(tabuleiro)
    /\ last.retorno = "4"

\* C15: on every board where verificar_tabuleiro returns a win of symbol s,
\* calcular_heuristica_tabuleiro(board, s) is at least 100.
C15_VitoriaValeCem ==
    (/\ last.op = "calcular_heuristica_tabuleiro"
     /\ verificar_tabuleiro(tabuleiro).estado = last.simbolo)
        => last.retorno >= 100

\* The detector names the caller as winner, the opponent holds a completed
\* triple as well, and the heuristic is exactly 100.
C15_Witness ==
    /\ last.op = "calcular_heuristica_tabuleiro"
    /\ verificar_tabuleiro(tabuleiro).estado = last.simbolo
    /\ \E i \in Completas(tabuleiro) : tabuleiro[OrdemDetector[i][1]] = Oponente(last.simbolo)
    /\ last.retorno = 100

\* What triple i contributes for symbol s: nothing if a cell is the
\* opponent's, else 100, 10, 1 or 0 for three, two, one or no cell of s.
ValorDaTrinca(tab, i, s) ==
    LET celulas == {OrdemDetector[i][k] : k \in 1..3}
        de_s == Cardinality({p \in celulas : tab[p] = s})
    IN  IF \E p \in celulas : tab[p] = Oponente(s)
        THEN 0
        ELSE CASE de_s = 3 -> 100
               [] de_s = 2 -> 10
               [] de_s = 1 -> 1
               [] OTHER -> 0

RECURSIVE SomaDasTrincas(_, _, _)
SomaDasTrincas(tab, s, I) ==
    IF I = {}
    THEN 0
    ELSE LET i == CHOOSE j \in I : TRUE
         IN  ValorDaTrinca(tab, i, s) + SomaDasTrincas(tab, s, I \ {i})

\* C16: calcular_heuristica_tabuleiro(board, s) is the sum over the 8 triples
\* of 0 for a triple with an opponent cell, else 100 for three cells of s,
\* 10 for two and one empty, 1 for one and two empty, 0 for an empty triple.
C16_HeuristicaEhSoma ==
    last.op = "calcular_heuristica_tabuleiro"
        => last.retorno = SomaDasTrincas(tabuleiro, last.simbolo, 1..Len(OrdemDetector))

\* A board on which all four cases contribute: a completed triple, an almost
\* completed one, an open one and one blocked by the opponent.
C16_Witness ==
    /\ last.op = "calcular_heuristica_tabuleiro"
    /\ last.retorno >= 111
    /\ last.retorno % 10 >= 1
    /\ (last.retorno \div 10) % 10 >= 1
    /\ \E p \in Posicoes : tabuleiro[p] = Oponente(last.simbolo)

----------------------------------------------------------------------------
(* Further properties of the game driven by fazer_jogada and reiniciar (SpecJogo) *)

\* The completed triples that contain position p.
CompletasCom(tab, p) ==
    {i \in Completas(tab) : \E k \in 1..3 : OrdemDetector[i][k] = p}

\* C17: when an accepted move completes a triple, the outcome reported is a
\* win of the player who moved with a completed triple that contains the
\* position just played, the game is inactive and turno is still the
\* winner; the moves 7, 1, 5, 2, 3 from a fresh game end with a win of X on
\* the triple 7, 5, 3.
C17_JogadaVencedora ==
    (/\ last.op = "fazer_jogada"
     /\ last.aceita
     /\ CompletasCom(tabuleiro, last.posicao) # {})
        => /\ last.resultado.estado \in Simbolos
           /\ last.resultado.estado = tabuleiro[last.posicao]
           /\ \E i \in CompletasCom(tabuleiro, last.posicao) :
                 last.resultado.posicoes = OrdemDetector[i]
           /\ ~jogo_ativo
           /\ turno = last.resultado.estado
           /\ (tabuleiro = TabuleiroDe({"7", "5", "3"}, {"1", "2"}) /\ last.posicao = "3")
                 => last.resultado = Resultado("X", 0, <<"7", "5", "3">>)

\* The fifth move, X on 3, completed the diagonal 7, 5, 3.
C17_Witness ==
    /\ last.op = "fazer_jogada"
    /\ last.aceita
    /\ last.posicao = "3"
    /\ tabuleiro = TabuleiroDe({"7", "5", "3"}, {"1", "2"})
    /\ last.resultado.posicoes = <<"7", "5", "3">>
    /\ turno = "X"
    /\ ~jogo_ativo

----------------------------------------------------------------------------
(* Properties of the game with imports of complete records (SpecInteiros) *)

\* C18: in every state reachable when successful imports (of any record
\* that passes the integrity test, whatever its turn field) are interleaved
\* with fazer_jogada and reiniciar, the number of X cells minus the number
\* of O cells is 0 or 1.
C18_DiferencaComImportacao ==
    Contar(tabuleiro, "X") - Contar(tabuleiro, "O") \in {0, 1}

\* C19: in every reachable state, also after a successful import, the board
\* has exactly the nine keys 1..9 and every cell holds space, X or O.
C19_NoveChavesTresValores ==
    /\ DOMAIN tabuleiro = Posicoes
    /\ \A p \in DOMAIN tabuleiro : tabuleiro[p] \in Valores

\* C20: in every state reachable by fazer_jogada, reiniciar and successful
\* imports, an active game has no completed triple and at least one empty
\* cell.
C20_AtivoSemTrinca ==
    jogo_ativo => (Completas(tabuleiro) = {} /\ Contar(tabuleiro, " ") >= 1)

\* The set of the elements of a sequence.
ConjuntoDe(seq) == {seq[k] : k \in 1..Len(seq)}

\* The triple T (a set of three positions) has two cells of s and its one
\* empty cell is p.
TrincaProduz(tab, s, T, p) ==
    /\ p \in T
    /\ tab[p] = " "
    /\ \A q \in T \ {p} : tab[q] = s

\* The index of the first triple of the table that yields position p.
PrimeiraQueProduz(tab, s, tabela, p) ==
    Menor({i \in 1..Len(tabela) : TrincaProduz(tab, s, ConjuntoDe(tabela[i]), p)})

\* C21: analisar_posicoes_criticas(board, s) holds exactly the empty
\* positions of the triples with two cells of s and one empty cell, none of
\* them twice, in the order of the first triple of the function's table
\* that yields each.
C21_CriticasExatasEmOrdem ==
    last.op = "analisar_posicoes_criticas" =>
        /\ ConjuntoDe(last.retorno) = PosicoesCriticas(tabuleiro, last.simbolo)
        /\ \A j, k \in 1..Len(last.retorno) :
              j < k =>
                 /\ last.retorno[j] # last.retorno[k]
                 /\ PrimeiraQueProduz(tabuleiro, last.simbolo,
                                      obter_todas_sequencias_vencedoras, last.retorno[j])
                    < PrimeiraQueProduz(tabuleiro, last.simbolo,
                                        obter_todas_sequencias_vencedoras, last.retorno[k])

\* Two positions were returned and one of them completes two triples.
C21_Witness ==
    /\ last.op = "analisar_posicoes_criticas"
    /\ Len(last.retorno) = 2
    /\ \E i, j \in 1..Len(OrdemDetector) :
          /\ i # j
          /\ TrincaProduz(tabuleiro, last.simbolo, ConjuntoDe(OrdemDetector[i]), last.retorno[2])
          /\ TrincaProduz(tabuleiro, last.simbolo, ConjuntoDe(OrdemDetector[j]), last.retorno[2])

OrdemHorizontaisPrimeiro ==
    << {"7", "8", "9"}, {"4", "5", "6"}, {"1", "2", "3"},
       {"7", "4", "1"}, {"8", "5", "2"}, {"9", "6", "3"},
       {"7", "5", "3"}, {"1", "5", "9"} >>

----------------------------------------------------------------------------
(* Turn, termination and the deferred reset (SpecJogo, SpecJogoJusto) *)

\* C23: while the game is active, with no import in between, turno is X
\* exactly when the board holds as many X as O, and O exactly when it holds
\* one X more.
C23_TurnoSegueContagem ==
    jogo_ativo =>
        /\ (turno = "X") <=> (Contar(tabuleiro, "X") = Contar(tabuleiro, "O"))
        /\ (turno = "O") <=> (Contar(tabuleiro, "X") = Contar(tabuleiro, "O") + 1)

\* An active game after the seventh accepted move: O to move, four X
\* against three O.
C23_Witness ==
    /\ jogo_ativo
    /\ last.op = "fazer_jogada"
    /\ last.aceita
    /\ turno = "O"
    /\ Contar(tabuleiro, "X") = 4
    /\ Contar(tabuleiro, "O") = 3

\* C24: from a fresh or reset game, every accepted move lowers the number
\* of empty cells by exactly one, at most 9 moves are accepted, and after a
\* ninth accepted move the game is finished.
C24_JogoTermina ==
    /\ [](aceitas <= 9 /\ (aceitas = 9 => ~jogo_ativo))
    /\ [](aceitas + Contar(tabuleiro, " ") = 9)
    /\ [][(last'.op = "fazer_jogada" /\ last'.aceita)
            => /\ Contar(tabuleiro', " ") = Contar(tabuleiro, " ") - 1
               /\ aceitas' = aceitas + 1]_vars

\* The ninth move of a game was accepted and the game is over.
C24_Witness ==
    /\ last.op = "fazer_jogada"
    /\ last.aceita
    /\ aceitas = 9
    /\ Contar(tabuleiro, " ") = 0
    /\ ~jogo_ativo

\* C25: a move that produces a draw schedules a deferred reiniciar, and
\* with the timer callback treated fairly the drawn game eventually is
\* fresh again (board empty, turno X, active) without any user action; a
\* win schedules nothing, and a won game stays finished until reiniciar
\* runs.
C25_EmpateReiniciaSozinho ==
    /\ [][(last'.op = "fazer_jogada" /\ last'.resultado.estado = "empate")
            => (timers' = timers + 1 /\ ~jogo_ativo')]_vars
    /\ (last.op = "fazer_jogada" /\ last.resultado.estado = "empate") ~> Novo
    /\ [][(last'.op = "fazer_jogada" /\ last'.resultado.estado \in Simbolos)
            => (timers' = timers /\ ~jogo_ativo')]_vars
    /\ [][(~jogo_ativo /\ Completas(tabuleiro) # {} /\ jogo_ativo')
            => EhReinicio(last'.op)]_vars

\* The timer of a draw fired right after the drawing move and left a fresh
\* game.
C25_Witness ==
    /\ last.op = "reiniciar_empate"
    /\ last.anterior = "fazer_jogada"
    /\ Novo
    /\ timers = 0

\* C26: when the callback a draw scheduled fires, the game is still in a
\* finished draw state (a full board without a completed triple, inactive),
\* so it never clears a board on which a later game is being played.
C26_TimerSoReiniciaEmpate ==
    [][last'.op = "reiniciar_empate"
         => /\ ~jogo_ativo
            /\ Contar(tabuleiro, " ") = 0
            /\ Completas(tabuleiro) = {}]_vars

----------------------------------------------------------------------------
(* Properties of criar_linha_vitoria's classification (SpecLinha) *)

\* C27: criar_linha_vitoria classifies the line as diagonal exactly when
\* the positions, as an unordered set, are {3, 5, 7} or {1, 5, 9}, whatever
\* the rectangles are (also when they are collinear horizontally or
\* vertically); no other triple is classified diagonal.
C27_DiagonalPelasPosicoes ==
    last.op = "criar_linha_vitoria" =>
        /\ (last.retorno = "diagonal-1")
              <=> (ConjuntoDe(entrada.posicoes) = {"3", "5", "7"})
        /\ (last.retorno = "diagonal-2")
              <=> (ConjuntoDe(entrada.posicoes) = {"1", "5", "9"})

\* The positions 7, 5, 3 in the detector's order, with three rectangles
\* side by side on one row: still a diagonal.
C27_Witness ==
    /\ last.op = "criar_linha_vitoria"
    /\ entrada.posicoes = <<"7", "5", "3">>
    /\ entrada.rects[1].top = entrada.rects[2].top
    /\ entrada.rects[2].top = entrada.rects[3].top
    /\ entrada.rects[1].left < entrada.rects[2].left
    /\ entrada.rects[2].left < entrada.rects[3].left
    /\ last.retorno = "diagonal-1"

\* Every two of the three rectangles have centres less than 5 apart on the
\* Y axis (the centres are kept doubled).
CentrosYProximos(rects) ==
    \A i, j \in 1..3 :
       rects[i].top + rects[i].bottom - (rects[j].top + rects[j].bottom) < 10

\* The same on the X axis.
CentrosXProximos(rects) ==
    \A i, j \in 1..3 :
       rects[i].left + rects[i].right - (rects[j].left + rects[j].right) < 10

\* C28: for a non-diagonal triple the line is classified horizontal exactly
\* when all three centerY values are mutually within 5 units, the first and
\* the third rectangle in (top, left) order included, and (when it is not
\* horizontal) vertical exactly when all three centerX values are.
C28_HorizontalSeTodosProximos ==
    (/\ last.op = "criar_linha_vitoria"
     /\ last.retorno \notin {"diagonal-1", "diagonal-2"})
        => /\ (last.retorno = "horizontal") <=> CentrosYProximos(entrada.rects)
           /\ last.retorno # "horizontal"
                 => ((last.retorno = "vertical") <=> CentrosXProximos(entrada.rects))

====
